---- MODULE Spec2Model ----
(***************************************************************************)
(* Canadian weather ETL: the ingestion loop of extract_data.py and the     *)
(* transformation pipeline of transform_data.py, as state machines over    *)
(* small data frames.                                                      *)
(*                                                                         *)
(* A data frame is [exists, columns, rows]: `columns` the set of column    *)
(* names, `rows` a sequence of functions from column name to cell.         *)
(* A nullable number or string is a tuple: << >> is NaN, <<x>> a value.    *)
(* A mean is an exact rational <<num, den>> (den > 0, lowest terms).       *)
(* A date cell is [type, v]: type "str" (CSV text), "datetime" (parsed) or *)
(* "float" (an empty CSV cell); v = <<y, m, d, h>>, or << >> for null.     *)
(***************************************************************************)
EXTENDS Integers, Sequences, FiniteSets, TLC

VARIABLES
    pc,            \* transform main: position in main()
    raw_file,      \* raw_data/combined_weather_data.csv on disk
    geo_file,      \* geonames.csv on disk
    now,           \* wall clock read by datetime.today()
    weather_df,    \* main's weather_df
    geonames_df,   \* main's geonames_df
    agg_df,        \* main's agg_df
    final_df,      \* main's final_df
    output,        \* final_output.csv: the sequence of frames written to it
    xpc,           \* extract main: position in the loop body
    requests,      \* extract main: the (station, year, date) iterations left
    response,      \* the frame pd.read_csv built from the HTTP response
    df,            \* extract main: the batch df
    reports,       \* what the quality checks returned for the current batch
    saved,         \* the per-request CSV files written, in order
    combined_data, \* extract main: combined_data
    combined_file  \* raw_data/combined_weather_data.csv as written by extract

vars == <<pc, raw_file, geo_file, now, weather_df, geonames_df, agg_df, final_df,
          output, xpc, requests, response, df, reports, saved, combined_data,
          combined_file>>

transformVars == <<pc, raw_file, geo_file, now, weather_df, geonames_df, agg_df,
                   final_df, output>>

extractVars == <<xpc, requests, response, df, reports, saved, combined_data,
                 combined_file>>

----------------------------------------------------------------------------
(* Column names                                                            *)

DATE_COLUMN == "Date/Time (LST)"

TEMPERATURE_COLUMN == "Temp (°C)"

----------------------------------------------------------------------------
(* Cells                                                                   *)

NaN == << >>

isnull(v) == v = NaN

Str(v) == [type |-> "str", v |-> v]

Timestamp(v) == [type |-> "datetime", v |-> v]

NaT == [type |-> "datetime", v |-> << >>]

NaNCell == [type |-> "float", v |-> << >>]

isnullCell(c) == c.v = << >>

IsLeap(y) == (y % 4 = 0 /\ y % 100 # 0) \/ y % 400 = 0

DaysInMonth(y, m) ==
    IF m = 2 THEN (IF IsLeap(y) THEN 29 ELSE 28)
    ELSE IF m \in {4, 6, 9, 11} THEN 30 ELSE 31

\* Does the text "y-m-d h:00" name a real instant?
ParsesAsDate(v) ==
    /\ Len(v) = 4
    /\ v[1] \in 1..9999
    /\ v[2] \in 1..12
    /\ v[3] \in 1..DaysInMonth(v[1], v[2])
    /\ v[4] \in 0..23

\* pd.to_datetime(cell, errors='coerce') on one cell.
to_datetime(c) ==
    IF c.type = "datetime" THEN c
    ELSE IF c.type = "str" /\ ParsesAsDate(c.v) THEN Timestamp(c.v)
    ELSE NaT

\* a <= b on timestamps <<y, m, d, h>>.
TsLeq(a, b) ==
    \/ a[1] < b[1]
    \/ a[1] = b[1] /\ a[2] < b[2]
    \/ a[1] = b[1] /\ a[2] = b[2] /\ a[3] < b[3]
    \/ a[1] = b[1] /\ a[2] = b[2] /\ a[3] = b[3] /\ a[4] <= b[4]

RECURSIVE Zeros(_)
Zeros(k) == IF k <= 0 THEN "" ELSE "0" \o Zeros(k - 1)

\* The decimal text of n, zero-padded to width w.
Pad(n, w) ==
    LET digits == IF n < 10 THEN 1 ELSE IF n < 100 THEN 2 ELSE IF n < 1000 THEN 3 ELSE 4
    IN  Zeros(w - digits) \o ToString(n)

\* Timestamp.strftime('%Y-%m')
strftime_Ym(v) == Pad(v[1], 4) \o "-" \o Pad(v[2], 2)

----------------------------------------------------------------------------
(* Exact arithmetic for means and differences                              *)

Abs(x) == IF x < 0 THEN -x ELSE x

RECURSIVE GCD(_, _)
GCD(a, b) == IF b = 0 THEN a ELSE GCD(b, a % b)

Rat(n, d) ==
    LET g == GCD(Abs(n), Abs(d))
        s == IF d < 0 THEN -1 ELSE 1
    IN  <<(s * n) \div g, (s * d) \div g>>

RatSub(p, q) == Rat(p[1] * q[2] - q[1] * p[2], p[2] * q[2])

RECURSIVE SumSeq(_)
SumSeq(s) == IF s = << >> THEN 0 ELSE Head(s) + SumSeq(Tail(s))

RECURSIVE MinSeq(_)
MinSeq(s) ==
    IF Len(s) = 1 THEN s[1]
    ELSE LET m == MinSeq(Tail(s)) IN IF s[1] <= m THEN s[1] ELSE m

RECURSIVE MaxSeq(_)
MaxSeq(s) ==
    IF Len(s) = 1 THEN s[1]
    ELSE LET m == MaxSeq(Tail(s)) IN IF s[1] >= m THEN s[1] ELSE m

----------------------------------------------------------------------------
(* Frames                                                                  *)

Frame(cols, rows) == [exists |-> TRUE, columns |-> cols, rows |-> rows]

NoFile == [exists |-> FALSE, columns |-> {}, rows |-> << >>]

NoFrame == Frame({}, << >>)

SeqsUpTo(S, n) == UNION {[1..k -> S] : k \in 0..n}

RECURSIVE Concat(_)
Concat(ss) == IF ss = << >> THEN << >> ELSE Head(ss) \o Concat(Tail(ss))

\* The rows of a frame as a set of positions.
Idx(f) == 1..Len(f.rows)

\* row with column c set to v (df[c] = ... on one row).
SetCell(row, c, v) == [k \in DOMAIN row \cup {c} |-> IF k = c THEN v ELSE row[k]]

----------------------------------------------------------------------------
(* transform_data.py                                                       *)

\* today = pd.Timestamp(datetime.today().date()): midnight of the current day.
today == <<now[1], now[2], now[3], 0>>

\* df[DATE_COLUMN] = pd.to_datetime(df[DATE_COLUMN], errors='coerce')
ConvertDates(rows, col) ==
    [i \in 1..Len(rows) |-> SetCell(rows[i], col, to_datetime(rows[i][col]))]

KeepRow(r) == TsLeq(r[DATE_COLUMN].v, today)

AddCalendar(r) ==
    SetCell(SetCell(SetCell(r, "date_month", strftime_Ym(r[DATE_COLUMN].v)),
                    "year", r[DATE_COLUMN].v[1]),
            "month", r[DATE_COLUMN].v[2])

\* clean_weather_data(df), for a frame that has the date column.
clean_weather_data(f) ==
    LET converted == ConvertDates(f.rows, DATE_COLUMN)
        parsed == SelectSeq(converted, LAMBDA r : ~isnullCell(r[DATE_COLUMN]))
        past == SelectSeq(parsed, KeepRow)
    IN  Frame(f.columns \cup {"date_month", "year", "month"},
              [i \in 1..Len(past) |-> AddCalendar(past[i])])

GroupKey(r) == <<r["Station_ID"], r["year"], r["month"], r["date_month"]>>

\* groupby sorts its keys; date_month is a function of (year, month).
KeyLess(a, b) ==
    \/ a[1] < b[1]
    \/ a[1] = b[1] /\ a[2] < b[2]
    \/ a[1] = b[1] /\ a[2] = b[2] /\ a[3] < b[3]

RECURSIVE SortedKeys(_)
SortedKeys(S) ==
    IF S = {} THEN << >>
    ELSE LET x == CHOOSE a \in S : \A b \in S \ {a} : KeyLess(a, b)
         IN  <<x>> \o SortedKeys(S \ {x})

\* The non-null temperatures of the group with key k, unwrapped.
GroupTemps(rows, k) ==
    LET members == SelectSeq(rows, LAMBDA r : GroupKey(r) = k)
        present == SelectSeq(members, LAMBDA r : ~isnull(r[TEMPERATURE_COLUMN]))
    IN  [i \in 1..Len(present) |-> present[i][TEMPERATURE_COLUMN][1]]

AggMean(ts) == IF ts = << >> THEN NaN ELSE Rat(SumSeq(ts), Len(ts))

AggMin(ts) == IF ts = << >> THEN NaN ELSE <<MinSeq(ts)>>

AggMax(ts) == IF ts = << >> THEN NaN ELSE <<MaxSeq(ts)>>

AggRow(rows, k) ==
    LET ts == GroupTemps(rows, k)
    IN  [Station_ID |-> k[1], year |-> k[2], month |-> k[3], date_month |-> k[4],
         temperature_celsius_avg |-> AggMean(ts),
         temperature_celsius_min |-> AggMin(ts),
         temperature_celsius_max |-> AggMax(ts)]

AggColumns == {"Station_ID", "year", "month", "date_month", "temperature_celsius_avg",
               "temperature_celsius_min", "temperature_celsius_max"}

\* Mutant of aggregate_weather_data: rows without a temperature are dropped
\* before the groupby, so a group of nulls yields no row.
aggregate_measured_only(f) ==
    LET measured == SelectSeq(f.rows, LAMBDA r : ~isnull(r[TEMPERATURE_COLUMN]))
        keys == SortedKeys({GroupKey(measured[i]) : i \in 1..Len(measured)})
    IN  Frame(AggColumns, [i \in 1..Len(keys) |-> AggRow(f.rows, keys[i])])

\* aggregate_weather_data(df), for a frame that has the grouping and temperature columns.
aggregate_weather_data(f) ==
    LET keys == SortedKeys({GroupKey(f.rows[i]) : i \in Idx(f)})
    IN  Frame(AggColumns, [i \in 1..Len(keys) |-> AggRow(f.rows, keys[i])])

\* sort_values(by=['Station_ID', 'month', 'year'])
SortLess(a, b) ==
    \/ a["Station_ID"] < b["Station_ID"]
    \/ a["Station_ID"] = b["Station_ID"] /\ a["month"] < b["month"]
    \/ a["Station_ID"] = b["Station_ID"] /\ a["month"] = b["month"] /\ a["year"] < b["year"]

SameDiffGroup(a, b) == a["Station_ID"] = b["Station_ID"] /\ a["month"] = b["month"]

FloatSub(x, y) == IF isnull(x) \/ isnull(y) THEN NaN ELSE RatSub(x, y)

\* Mutant of GroupDiff: diff() on the sorted column without the groupby.
GroupDiffUngrouped(rows, i) ==
    IF i = 1 THEN NaN
    ELSE FloatSub(rows[i]["temperature_celsius_avg"], rows[i - 1]["temperature_celsius_avg"])

\* groupby(['Station_ID', 'month'])[col].diff() at position i: the value minus the
\* value of the previous row of the same group, NaN for the group's first row.
GroupDiff(rows, i) ==
    LET before == {j \in 1..(i - 1) : SameDiffGroup(rows[j], rows[i])}
    IN  IF before = {} THEN NaN
        ELSE LET j == CHOOSE q \in before : \A o \in before : o <= q
             IN  FloatSub(rows[i]["temperature_celsius_avg"],
                          rows[j]["temperature_celsius_avg"])

\* calculate_year_on_year_delta(agg_df)
calculate_year_on_year_delta(f) ==
    LET sorted == SortSeq(f.rows, SortLess)
    IN  Frame(f.columns \cup {"temperature_celsius_yoy_avg"},
              [i \in 1..Len(sorted) |->
                   SetCell(sorted[i], "temperature_celsius_yoy_avg", GroupDiff(sorted, i))])

StationCBCBY == 26953

StationEKJCH == 31688

mapping == (StationCBCBY :> "CBCBY") @@ (StationEKJCH :> "EKJCH")

\* Series.map(mapping) on one value.
MapStation(s) == IF s \in DOMAIN mapping THEN <<mapping[s]>> ELSE NaN

\* agg_df['climate_id'] = agg_df['Station_ID'].map(mapping)
WithClimateId(f) ==
    Frame(f.columns \cup {"climate_id"},
          [i \in Idx(f) |-> SetCell(f.rows[i], "climate_id", MapStation(f.rows[i]["Station_ID"]))])

GeoColumns == {"name", "id", "latitude", "longitude", "feature.id", "map"}

\* pd.merge puts a key of the left beside every right row with an equal key; two
\* null keys are equal to it.
KeysMatch(l, r) == l = r

Matches(l, geo) == SelectSeq(geo.rows, LAMBDA g : KeysMatch(l["climate_id"], g["id"]))

\* The final record of left row l beside dimension row g, projected and renamed.
FinalRow(l, g) ==
    [station_name |-> g["name"], climate_id |-> g["id"], latitude |-> g["latitude"],
     longitude |-> g["longitude"], date_month |-> l["date_month"],
     feature_id |-> g["feature.id"], map |-> g["map"],
     temperature_celsius_avg |-> l["temperature_celsius_avg"],
     temperature_celsius_min |-> l["temperature_celsius_min"],
     temperature_celsius_max |-> l["temperature_celsius_max"],
     temperature_celsius_yoy_avg |-> l["temperature_celsius_yoy_avg"]]

NullGeoRow == [c \in GeoColumns |-> NaN]

\* Mutant of MergeRow: how='inner', a left row without a match is dropped.
MergeRowInner(l, geo) ==
    LET ms == Matches(l, geo)
    IN  [i \in 1..Len(ms) |-> FinalRow(l, ms[i])]

\* how='left': a left row without a match is kept once, beside nulls.
MergeRow(l, geo) ==
    LET ms == Matches(l, geo)
    IN  IF ms = << >> THEN <<FinalRow(l, NullGeoRow)>>
        ELSE [i \in 1..Len(ms) |-> FinalRow(l, ms[i])]

FinalColumns == {"station_name", "climate_id", "latitude", "longitude", "date_month",
                 "feature_id", "map", "temperature_celsius_avg", "temperature_celsius_min",
                 "temperature_celsius_max", "temperature_celsius_yoy_avg"}

\* pd.merge(agg_df, geonames_df, left_on='climate_id', right_on='id', how='left'),
\* the column selection and the rename; agg is agg_df with its climate_id column.
join_with_geonames(agg, geo) ==
    Frame(FinalColumns, Concat([i \in Idx(agg) |-> MergeRow(agg.rows[i], geo)]))

\* load_data(): pd.read_csv raises when a file is missing.
Load ==
    /\ pc = "start"
    /\ IF raw_file.exists /\ geo_file.exists
       THEN /\ weather_df' = raw_file
            /\ geonames_df' = geo_file
            /\ pc' = "loaded"
       ELSE /\ pc' = "failed"
            /\ UNCHANGED <<weather_df, geonames_df>>
    /\ UNCHANGED <<raw_file, geo_file, now, agg_df, final_df, output>>
    /\ UNCHANGED extractVars

\* weather_df = clean_weather_data(weather_df); df[DATE_COLUMN] raises KeyError
\* when the column is absent.
Clean ==
    /\ pc = "loaded"
    /\ IF DATE_COLUMN \in weather_df.columns
       THEN /\ weather_df' = clean_weather_data(weather_df)
            /\ pc' = "cleaned"
       ELSE /\ pc' = "failed"
            /\ UNCHANGED weather_df
    /\ UNCHANGED <<raw_file, geo_file, now, geonames_df, agg_df, final_df, output>>
    /\ UNCHANGED extractVars

\* agg_df = aggregate_weather_data(weather_df); groupby raises KeyError on an
\* absent key or value column.
Aggregate ==
    /\ pc = "cleaned"
    /\ IF {"Station_ID", TEMPERATURE_COLUMN} \subseteq weather_df.columns
       THEN /\ agg_df' = aggregate_weather_data(weather_df)
            /\ pc' = "aggregated"
       ELSE /\ pc' = "failed"
            /\ UNCHANGED agg_df
    /\ UNCHANGED <<raw_file, geo_file, now, weather_df, geonames_df, final_df, output>>
    /\ UNCHANGED extractVars

\* agg_df = calculate_year_on_year_delta(agg_df)
Delta ==
    /\ pc = "aggregated"
    /\ agg_df' = calculate_year_on_year_delta(agg_df)
    /\ pc' = "delta"
    /\ UNCHANGED <<raw_file, geo_file, now, weather_df, geonames_df, final_df, output>>
    /\ UNCHANGED extractVars

\* Mutant of Join: the KeyError is caught and main goes on to write.
JoinSwallowingError ==
    /\ pc = "delta"
    /\ agg_df' = WithClimateId(agg_df)
    /\ final_df' = IF GeoColumns \subseteq geonames_df.columns
                   THEN join_with_geonames(agg_df', geonames_df)
                   ELSE final_df
    /\ pc' = "joined"
    /\ UNCHANGED <<raw_file, geo_file, now, weather_df, geonames_df, output>>
    /\ UNCHANGED extractVars

\* final_df = join_with_geonames(agg_df, geonames_df): the climate_id column is
\* added to the caller's agg_df first; the merge and the column selection raise
\* KeyError on an absent dimension column.
Join ==
    /\ pc = "delta"
    /\ agg_df' = WithClimateId(agg_df)
    /\ IF GeoColumns \subseteq geonames_df.columns
       THEN /\ final_df' = join_with_geonames(agg_df', geonames_df)
            /\ pc' = "joined"
       ELSE /\ pc' = "failed"
            /\ UNCHANGED final_df
    /\ UNCHANGED <<raw_file, geo_file, now, weather_df, geonames_df, output>>
    /\ UNCHANGED extractVars

\* final_df.to_csv(FINAL_OUTPUT_PATH, index=False)
Write ==
    /\ pc = "joined"
    /\ output' = Append(output, final_df)
    /\ pc' = "done"
    /\ UNCHANGED <<raw_file, geo_file, now, weather_df, geonames_df, agg_df, final_df>>
    /\ UNCHANGED extractVars

TransformNext == Load \/ Clean \/ Aggregate \/ Delta \/ Join \/ Write

----------------------------------------------------------------------------
(* extract_data.py                                                         *)

RatAdd(p, q) == Rat(p[1] * q[2] + q[1] * p[2], p[2] * q[2])

RatMul(p, q) == Rat(p[1] * q[1], p[2] * q[2])

RatLess(p, q) == p[1] * q[2] < q[1] * p[2]

\* The number a cell of column c holds, << >> when it is null.
NumVal(c, cell) == IF c = DATE_COLUMN THEN NaN ELSE cell

\* df.select_dtypes(include='number'): read_csv types a column float64 when all
\* its cells are numbers or empty, and object when it has text or no cell at all.
IsNumericColumn(f, c) ==
    /\ f.rows # << >>
    /\ \A i \in Idx(f) : c = DATE_COLUMN => f.rows[i][c].type = "float"

NumericColumns(f) == {c \in f.columns : IsNumericColumn(f, c)}

\* df.isnull().sum()
check_nulls(f) ==
    [c \in f.columns |->
        Cardinality({i \in Idx(f) :
            IF c = DATE_COLUMN THEN isnullCell(f.rows[i][c]) ELSE isnull(f.rows[i][c])})]

\* The non-null numbers of column c, ascending.
SortedValues(f, c) ==
    LET present == SelectSeq(f.rows, LAMBDA r : ~isnull(NumVal(c, r[c])))
    IN  SortSeq([i \in 1..Len(present) |-> present[i][c][1]], LAMBDA a, b : a < b)

\* Series.quantile(k/4) with linear interpolation over the sorted values xs.
Quantile(xs, k) ==
    IF xs = << >> THEN NaN
    ELSE LET p == k * (Len(xs) - 1)
             i == (p \div 4) + 1
             rem == p % 4
         IN  IF rem = 0 THEN Rat(xs[i], 1)
             ELSE Rat(4 * xs[i] + rem * (xs[i + 1] - xs[i]), 4)

Factor == <<3, 2>>

\* One column of check_outliers: the bounds and the number of rows outside them.
OutlierInfo(f, c) ==
    LET xs == SortedValues(f, c)
        Q1 == Quantile(xs, 1)
        Q3 == Quantile(xs, 3)
    IN  IF isnull(Q1) THEN [count |-> 0, lower_bound |-> NaN, upper_bound |-> NaN]
        ELSE LET IQR == RatSub(Q3, Q1)
                 lower_bound == RatSub(Q1, RatMul(Factor, IQR))
                 upper_bound == RatAdd(Q3, RatMul(Factor, IQR))
             IN  [count |-> Cardinality({j \in 1..Len(xs) :
                                \/ RatLess(<<xs[j], 1>>, lower_bound)
                                \/ RatLess(upper_bound, <<xs[j], 1>>)}),
                  lower_bound |-> lower_bound, upper_bound |-> upper_bound]

\* check_outliers(df, numeric_columns): columns absent from df are skipped.
check_outliers(f, numeric_columns) ==
    [c \in numeric_columns \cap f.columns |-> OutlierInfo(f, c)]

NextDay(v) ==
    IF v[3] < DaysInMonth(v[1], v[2]) THEN <<v[1], v[2], v[3] + 1, v[4]>>
    ELSE IF v[2] < 12 THEN <<v[1], v[2] + 1, 1, v[4]>>
    ELSE <<v[1] + 1, 1, 1, v[4]>>

\* pd.date_range(start, end, freq='D')
RECURSIVE date_range(_, _)
date_range(start, end) ==
    IF TsLeq(start, end) THEN <<start>> \o date_range(NextDay(start), end) ELSE << >>

\* The non-null timestamps of the converted date column.
ValidDates(rows) ==
    {rows[i][DATE_COLUMN].v : i \in {j \in 1..Len(rows) : ~isnullCell(rows[j][DATE_COLUMN])}}

MinDate(D) == CHOOSE a \in D : \A b \in D : TsLeq(a, b)

MaxDate(D) == CHOOSE a \in D : \A b \in D : TsLeq(b, a)

\* full_range.difference(df[date_column]) for a converted column with a valid date.
missing_days(rows) ==
    LET D == ValidDates(rows)
    IN  SelectSeq(date_range(MinDate(D), MaxDate(D)), LAMBDA t : t \notin D)

station_ids == <<StationCBCBY, StationEKJCH>>

FirstYear == 2023

SecondYear == 2024

years == <<FirstYear, SecondYear>>

DaysPerYear == 1

\* The loop's iterations in order: every station, every year, the year's days.
AllRequests ==
    Concat([s \in 1..Len(station_ids) |->
        Concat([y \in 1..Len(years) |->
            [d \in 1..DaysPerYear |-> <<station_ids[s], years[y], 1, d>>]])])

BRow(d, t) == (DATE_COLUMN :> d) @@ (TEMPERATURE_COLUMN :> t)

MaxBatchRows == 2

BatchRows ==
    {BRow(Str(<<2024, 1, 1, 0>>), <<10>>), BRow(Str(<<2024, 1, 3, 0>>), <<14>>),
     BRow(Str(<<2024, 1, 32, 0>>), NaN)}

\* What the server can answer with: hourly rows, or a table without the date column.
Batches ==
    {Frame({DATE_COLUMN, TEMPERATURE_COLUMN}, rows) : rows \in SeqsUpTo(BatchRows, MaxBatchRows)}
        \cup {Frame({TEMPERATURE_COLUMN}, <<(TEMPERATURE_COLUMN :> <<10>>)>>)}

\* except Exception: the error is printed and the loop goes to its next iteration.
NextIteration ==
    /\ requests' = Tail(requests)
    /\ xpc' = "fetch"

\* df = fetch_weather_data(...): a frame, or an exception on a status other than 200.
Fetch ==
    /\ xpc = "fetch"
    /\ requests # << >>
    /\ \/ /\ \E b \in Batches : response' = b /\ df' = b
          /\ reports' = << >>
          /\ xpc' = "check_nulls"
          /\ UNCHANGED requests
       \/ /\ NextIteration
          /\ UNCHANGED <<response, df, reports>>
    /\ UNCHANGED <<saved, combined_data, combined_file>>
    /\ UNCHANGED transformVars

CheckNulls ==
    /\ xpc = "check_nulls"
    /\ reports' = Append(reports, check_nulls(df))
    /\ xpc' = "check_outliers"
    /\ UNCHANGED <<requests, response, df, saved, combined_data, combined_file>>
    /\ UNCHANGED transformVars

CheckOutliers ==
    /\ xpc = "check_outliers"
    /\ reports' = IF NumericColumns(df) # {}
                  THEN Append(reports, check_outliers(df, NumericColumns(df)))
                  ELSE reports
    /\ xpc' = "check_missing_days"
    /\ UNCHANGED <<requests, response, df, saved, combined_data, combined_file>>
    /\ UNCHANGED transformVars

\* check_missing_days(df, date_column='Date/Time (LST)'): the conversion is assigned
\* to the batch's own column; pd.date_range raises ValueError when min and max are NaT.
CheckMissingDays ==
    /\ xpc = "check_missing_days"
    /\ IF DATE_COLUMN \notin df.columns
       THEN /\ xpc' = "save"
            /\ UNCHANGED <<requests, df, reports>>
       ELSE LET converted == ConvertDates(df.rows, DATE_COLUMN)
            IN  /\ df' = [df EXCEPT !.rows = converted]
                /\ IF ValidDates(converted) = {}
                   THEN /\ NextIteration
                        /\ UNCHANGED reports
                   ELSE /\ reports' = Append(reports, missing_days(converted))
                        /\ xpc' = "save"
                        /\ UNCHANGED requests
    /\ UNCHANGED <<response, saved, combined_data, combined_file>>
    /\ UNCHANGED transformVars

\* DataFrame.to_csv on one date cell: a timestamp is written as its text, NaT as
\* an empty cell.
CsvCell(c) == IF c.type = "datetime" THEN (IF isnullCell(c) THEN NaNCell ELSE Str(c.v)) ELSE c

to_csv(f) ==
    [exists |-> TRUE, columns |-> f.columns,
     rows |-> [i \in Idx(f) |->
                  [c \in DOMAIN f.rows[i] |->
                      IF c = DATE_COLUMN THEN CsvCell(f.rows[i][c]) ELSE f.rows[i][c]]]]

\* df['Station_ID'] = station_id, unless the column is there.
WithStation(f, s) ==
    IF "Station_ID" \in f.columns THEN f
    ELSE Frame(f.columns \cup {"Station_ID"},
               [i \in Idx(f) |-> SetCell(f.rows[i], "Station_ID", s)])

\* df.to_csv(file_path), the Station_ID column, combined_data.append(df).
SaveAndAppend ==
    /\ xpc = "save"
    /\ saved' = Append(saved, [request |-> Head(requests), file |-> to_csv(df)])
    /\ df' = WithStation(df, Head(requests)[1])
    /\ combined_data' = Append(combined_data, df')
    /\ NextIteration
    /\ UNCHANGED <<response, reports, combined_file>>
    /\ UNCHANGED transformVars

ConcatColumns(fs) == UNION {fs[i].columns : i \in 1..Len(fs)}

\* A row widened to the columns cols, NaN where it has none.
Widen(r, cols) ==
    [c \in cols |-> IF c \in DOMAIN r THEN r[c]
                    ELSE IF c = DATE_COLUMN THEN NaT ELSE NaN]

\* pd.concat(combined_data, ignore_index=True)
concat(fs) ==
    Frame(ConcatColumns(fs),
          Concat([i \in 1..Len(fs) |->
                     [j \in Idx(fs[i]) |-> Widen(fs[i].rows[j], ConcatColumns(fs))]]))

\* After the loops: the combined file is written when any batch was appended.
Combine ==
    /\ xpc = "fetch"
    /\ requests = << >>
    /\ combined_file' = IF combined_data # << >> THEN to_csv(concat(combined_data))
                        ELSE combined_file
    /\ xpc' = "done"
    /\ UNCHANGED <<requests, response, df, reports, saved, combined_data>>
    /\ UNCHANGED transformVars

ExtractNext == Fetch \/ CheckNulls \/ CheckOutliers \/ CheckMissingDays \/ SaveAndAppend \/ Combine

----------------------------------------------------------------------------
(* Inputs                                                                  *)

\* A station the mapping does not know.
UnmappedStation == CHOOSE s \in 1..3 : s \notin DOMAIN mapping

WRow(s, d, t) == ("Station_ID" :> s) @@ (DATE_COLUMN :> d) @@ (TEMPERATURE_COLUMN :> t)

RawColumns == {"Station_ID", DATE_COLUMN, TEMPERATURE_COLUMN}

\* A combined file whose batches carried no date column.
UndatedFrame ==
    Frame({"Station_ID", TEMPERATURE_COLUMN},
          <<("Station_ID" :> StationCBCBY) @@ (TEMPERATURE_COLUMN :> <<10>>)>>)

GeoRow(id, n) ==
    ("name" :> <<n>>) @@ ("id" :> id) @@ ("latitude" :> <<49>>) @@ ("longitude" :> <<-123>>)
        @@ ("feature.id" :> <<"F-" \o n>>) @@ ("map" :> <<"M">>)

\* A dimension file without its key column.
KeylessGeo == Frame(GeoColumns \ {"id"}, << >>)

Afternoon == <<2024, 6, 2, 15>>

MaxRows == 2

MaxGeoRows == 2

JoinRows ==
    {WRow(s, Str(<<2023, 6, 1, 0>>), <<10>>) : s \in {StationCBCBY, StationEKJCH, UnmappedStation}}
        \cup {WRow(StationCBCBY, Str(<<2024, 6, 1, 0>>), <<14>>),
              WRow(UnmappedStation, Str(<<2023, 6, 1, 0>>), NaN)}

GeoRows == {GeoRow(id, n) : id \in {<<"CBCBY">>, <<"EKJCH">>, NaN}, n \in {"A", "B"}}

TransformInit(frames, geos, clocks) ==
    /\ pc = "start"
    /\ raw_file \in frames
    /\ geo_file \in geos
    /\ now \in clocks
    /\ weather_df = NoFrame
    /\ geonames_df = NoFrame
    /\ agg_df = NoFrame
    /\ final_df = NoFrame
    /\ output = << >>
    /\ xpc = "idle"
    /\ requests = << >>
    /\ response = NoFrame
    /\ df = NoFrame
    /\ reports = << >>
    /\ saved = << >>
    /\ combined_data = << >>
    /\ combined_file = NoFile

Init ==
    TransformInit(
        {Frame(RawColumns, rows) : rows \in SeqsUpTo(JoinRows, MaxRows)}
            \cup {UndatedFrame, NoFile},
        {Frame(GeoColumns, rows) : rows \in SeqsUpTo(GeoRows, MaxGeoRows)}
            \cup {KeylessGeo, NoFile},
        {Afternoon})

Next == TransformNext

Spec == Init /\ [][Next]_vars

ExtractInit ==
    /\ pc = "idle"
    /\ raw_file = NoFile
    /\ geo_file = NoFile
    /\ now = Afternoon
    /\ weather_df = NoFrame
    /\ geonames_df = NoFrame
    /\ agg_df = NoFrame
    /\ final_df = NoFrame
    /\ output = << >>
    /\ xpc = "fetch"
    /\ requests = AllRequests
    /\ response = NoFrame
    /\ df = NoFrame
    /\ reports = << >>
    /\ saved = << >>
    /\ combined_data = << >>
    /\ combined_file = NoFile

SpecExtract == ExtractInit /\ [][ExtractNext]_vars

\* Rows around the processing date: the day before, the day itself at midnight and
\* in the afternoon, the day after, a date that does not exist, an empty cell.
CleanRows ==
    {WRow(StationCBCBY, d, t) :
        d \in {Str(<<2024, 6, 1, 13>>), Str(<<2024, 6, 2, 0>>), Str(<<2024, 6, 2, 13>>),
               Str(<<2024, 6, 3, 0>>), Str(<<2024, 2, 30, 0>>), NaNCell},
        t \in {<<10>>, NaN}}

OneGeo == Frame(GeoColumns, <<GeoRow(<<"CBCBY">>, "A")>>)

CleanInit ==
    TransformInit(
        {Frame(RawColumns, rows) : rows \in SeqsUpTo(CleanRows, MaxRows)} \cup {UndatedFrame},
        {OneGeo},
        {Afternoon})

SpecClean == CleanInit /\ [][Next]_vars

MaxStatRows == 3

\* One station over three Junes and a May, another station in one of the Junes.
StatRows ==
    {WRow(StationCBCBY, Str(d), t) :
        d \in {<<2022, 6, 1, 0>>, <<2023, 6, 1, 0>>, <<2024, 6, 1, 0>>, <<2024, 5, 1, 0>>},
        t \in {<<10>>, <<14>>, NaN}}
        \cup {WRow(UnmappedStation, Str(<<2023, 6, 1, 0>>), <<-3>>)}

StatsInit ==
    TransformInit(
        {Frame(RawColumns, rows) : rows \in SeqsUpTo(StatRows, MaxStatRows)} \cup {UndatedFrame},
        {OneGeo},
        {Afternoon})

SpecStats == StatsInit /\ [][Next]_vars

----------------------------------------------------------------------------
(* Properties                                                              *)

Joined == pc \in {"joined", "done"}

\* No key value, the null key included, stands in two rows of the dimension table.
UniqueKeys(geo) ==
    \A i, j \in Idx(geo) : i # j => geo.rows[i]["id"] # geo.rows[j]["id"]

GeoUsable == geo_file.exists /\ GeoColumns \subseteq geo_file.columns

Stats(r) ==
    <<r["date_month"], r["temperature_celsius_avg"], r["temperature_celsius_min"],
      r["temperature_celsius_max"], r["temperature_celsius_yoy_avg"]>>

\* Some aggregate row of a mapped station carries a key that stands in more than
\* one dimension row.
HitsDuplicatedKey ==
    \E i \in Idx(agg_df) :
        ~isnull(agg_df.rows[i]["climate_id"]) /\ Cardinality({j \in Idx(geonames_df) :
            KeysMatch(agg_df.rows[i]["climate_id"], geonames_df.rows[j]["id"])}) > 1

\* C1: a dimension table in which a key value occurs in more than one row makes
\* join_with_geonames fail, so that main emits no final dataset; stated for the
\* runs in which a mapped aggregate row carries such a key: the join never completes.
C1_DuplicateKeyAborts ==
    (GeoUsable /\ ~UniqueKeys(geo_file) /\ Joined) => ~HitsDuplicatedKey

\* C2: with unique dimension keys the join keeps every aggregate row exactly once,
\* in place: as many output rows as input rows, row i of the output carrying the
\* month and statistics of row i of the input, mapped or not, matched or not.
C2_JoinCardinality ==
    (Joined /\ UniqueKeys(geonames_df)) =>
        /\ Len(final_df.rows) = Len(agg_df.rows)
        /\ \A i \in Idx(agg_df) : Stats(final_df.rows[i]) = Stats(agg_df.rows[i])

C2_Witness ==
    /\ pc = "joined"
    /\ UniqueKeys(geonames_df)
    /\ Len(geonames_df.rows) = 2
    /\ \E i, j \in Idx(agg_df) :
        /\ agg_df.rows[i]["Station_ID"] = UnmappedStation
        /\ final_df.rows[i]["climate_id"] = NaN
        /\ agg_df.rows[j]["Station_ID"] = StationCBCBY
        /\ final_df.rows[j]["climate_id"] = <<"CBCBY">>
    /\ Len(final_df.rows) = 2

\* The earlier-year aggregates of row i's station and calendar month.
Earlier(rows, i) ==
    {j \in 1..Len(rows) :
        /\ rows[j]["Station_ID"] = rows[i]["Station_ID"]
        /\ rows[j]["month"] = rows[i]["month"]
        /\ rows[j]["year"] < rows[i]["year"]}

\* Among them, the one of the greatest year.
NearestPrior(rows, i) ==
    CHOOSE j \in Earlier(rows, i) : \A o \in Earlier(rows, i) : rows[o]["year"] <= rows[j]["year"]

\* C3 as stated: the delta is the row's average minus the average of the nearest
\* prior present year, and it is null exactly when there is no earlier year.
C3_DeltaNullOnlyWithoutPrior ==
    pc = "delta" =>
        \A i \in Idx(agg_df) :
            LET r == agg_df.rows[i]
            IN  /\ isnull(r["temperature_celsius_yoy_avg"]) <=> Earlier(agg_df.rows, i) = {}
                /\ Earlier(agg_df.rows, i) # {} =>
                       r["temperature_celsius_yoy_avg"] =
                           FloatSub(r["temperature_celsius_avg"],
                                    agg_df.rows[NearestPrior(agg_df.rows, i)]["temperature_celsius_avg"])

\* C3, amended: the delta is null exactly when there is no earlier year for the
\* station and month, or the row's average or the nearest prior present year's
\* average is null; otherwise the delta plus the prior average is the row's average.
C3_DeltaAgainstNearestPrior ==
    pc = "delta" =>
        \A i \in Idx(agg_df) :
            LET r == agg_df.rows[i]
                yoy == r["temperature_celsius_yoy_avg"]
                avg == r["temperature_celsius_avg"]
            IN  IF Earlier(agg_df.rows, i) = {} THEN isnull(yoy)
                ELSE LET prev == agg_df.rows[NearestPrior(agg_df.rows, i)]["temperature_celsius_avg"]
                     IN  IF isnull(avg) \/ isnull(prev) THEN isnull(yoy)
                         ELSE ~isnull(yoy) /\ RatAdd(yoy, prev) = avg

\* A June with 2022, 2023 and 2024 present and a changing average, and a null
\* average elsewhere in the table.
C3_Witness ==
    /\ pc = "delta"
    /\ \E i, j, k \in Idx(agg_df) :
        /\ Earlier(agg_df.rows, k) = {i, j}
        /\ NearestPrior(agg_df.rows, k) = j
        /\ agg_df.rows[i]["temperature_celsius_avg"] # agg_df.rows[j]["temperature_celsius_avg"]
        /\ ~isnull(agg_df.rows[i]["temperature_celsius_avg"])
        /\ ~isnull(agg_df.rows[k]["temperature_celsius_yoy_avg"])

\* The final record of an unmapped aggregate row, as the claim has it.
UnmappedRecord(r) ==
    [station_name |-> NaN, climate_id |-> NaN, latitude |-> NaN, longitude |-> NaN,
     date_month |-> r["date_month"], feature_id |-> NaN, map |-> NaN,
     temperature_celsius_avg |-> r["temperature_celsius_avg"],
     temperature_celsius_min |-> r["temperature_celsius_min"],
     temperature_celsius_max |-> r["temperature_celsius_max"],
     temperature_celsius_yoy_avg |-> r["temperature_celsius_yoy_avg"]]

\* C4: for every dimension table, an aggregate row whose station is not in the
\* mapping is kept, with null dimension attributes and its statistics unchanged.
C4_UnmappedStationPassthrough ==
    Joined =>
        \A i \in Idx(agg_df) :
            agg_df.rows[i]["Station_ID"] \notin DOMAIN mapping =>
                \E k \in Idx(final_df) : final_df.rows[k] = UnmappedRecord(agg_df.rows[i])

\* The calendar day of the processing date is not before that of timestamp v.
OnOrBeforeProcessingDate(v) == TsLeq(<<v[1], v[2], v[3], 0>>, <<now[1], now[2], now[3], 0>>)

ShouldSurvive(r) ==
    /\ r[DATE_COLUMN].type = "str"
    /\ ParsesAsDate(r[DATE_COLUMN].v)
    /\ OnOrBeforeProcessingDate(r[DATE_COLUMN].v)

\* C5: the cleaned rows are exactly the input rows whose timestamp parses and is
\* not after the processing date, whatever their time of day.
C5_CleanKeepsExactlyPastRows ==
    pc = "cleaned" =>
        LET expected == SelectSeq(raw_file.rows, ShouldSurvive)
        IN  /\ Len(weather_df.rows) = Len(expected)
            /\ \A i \in 1..Len(expected) :
                /\ weather_df.rows[i][DATE_COLUMN].v = expected[i][DATE_COLUMN].v
                /\ weather_df.rows[i]["Station_ID"] = expected[i]["Station_ID"]
                /\ weather_df.rows[i][TEMPERATURE_COLUMN] = expected[i][TEMPERATURE_COLUMN]

Key3(r) == <<r["Station_ID"], r["year"], r["month"]>>

\* The positions of the cleaned rows of group k that have a temperature.
Measured(k) ==
    {i \in Idx(weather_df) :
        Key3(weather_df.rows[i]) = k /\ ~isnull(weather_df.rows[i][TEMPERATURE_COLUMN])}

RECURSIVE TempSum(_)
TempSum(I) ==
    IF I = {} THEN 0
    ELSE LET i == CHOOSE x \in I : TRUE
         IN  weather_df.rows[i][TEMPERATURE_COLUMN][1] + TempSum(I \ {i})

\* C6: one aggregate row per (Station_ID, year, month) of the cleaned input and
\* none besides; avg, min and max are the mean, least and greatest of the group's
\* non-null temperatures, and null when the group has none.
C6_OneRowPerGroup ==
    pc = "aggregated" =>
        /\ \A i, j \in Idx(agg_df) : i # j => Key3(agg_df.rows[i]) # Key3(agg_df.rows[j])
        /\ {Key3(agg_df.rows[i]) : i \in Idx(agg_df)}
               = {Key3(weather_df.rows[i]) : i \in Idx(weather_df)}
        /\ \A i \in Idx(agg_df) :
            LET r == agg_df.rows[i]
                I == Measured(Key3(r))
                T == {weather_df.rows[x][TEMPERATURE_COLUMN][1] : x \in I}
            IN  IF I = {}
                THEN /\ isnull(r["temperature_celsius_avg"])
                     /\ isnull(r["temperature_celsius_min"])
                     /\ isnull(r["temperature_celsius_max"])
                ELSE /\ ~isnull(r["temperature_celsius_avg"])
                     /\ r["temperature_celsius_avg"][1] * Cardinality(I)
                            = TempSum(I) * r["temperature_celsius_avg"][2]
                     /\ r["temperature_celsius_min"][1] \in T
                     /\ \A t \in T : r["temperature_celsius_min"][1] <= t
                     /\ r["temperature_celsius_max"][1] \in T
                     /\ \A t \in T : t <= r["temperature_celsius_max"][1]

\* A group without any temperature beside a group of two different readings.
C6_Witness ==
    /\ pc = "aggregated"
    /\ \E i \in Idx(agg_df) : isnull(agg_df.rows[i]["temperature_celsius_avg"])
    /\ \E i \in Idx(agg_df) :
        /\ Cardinality(Measured(Key3(agg_df.rows[i]))) = 2
        /\ agg_df.rows[i]["temperature_celsius_min"] # agg_df.rows[i]["temperature_celsius_max"]

\* Nothing of the raw file survives cleaning.
NothingToClean ==
    \A i \in Idx(raw_file) :
        LET r == ConvertDates(raw_file.rows, DATE_COLUMN)[i]
        IN  isnullCell(r[DATE_COLUMN]) \/ ~KeepRow(r)

\* C7: a file without the date column, or one that cleaning empties, is no error
\* in any transformation stage: each stage returns a frame without rows.
C7_EmptyBatchNeverFatal ==
    (raw_file.exists /\ GeoUsable /\ (DATE_COLUMN \notin raw_file.columns \/ NothingToClean)) =>
        /\ pc # "failed"
        /\ pc \in {"cleaned", "aggregated", "delta", "joined", "done"} => weather_df.rows = << >>
        /\ pc \in {"aggregated", "delta", "joined", "done"} => agg_df.rows = << >>
        /\ Joined => final_df.rows = << >>

\* C8: the final dataset is written at most once, and only the frame that the
\* completed clean, aggregate, delta and join stages produced; a failed run has
\* written nothing.
C8_WriteOnlyAfterFullPipeline ==
    /\ Len(output) <= 1
    /\ pc = "failed" => output = << >>
    /\ output # << >> =>
        /\ pc = "done"
        /\ output[1] = final_df
        /\ final_df.columns = FinalColumns
        /\ {"temperature_celsius_yoy_avg", "climate_id"} \subseteq agg_df.columns
        /\ {"year", "month", "date_month"} \subseteq weather_df.columns

C8_Witness ==
    /\ pc = "done"
    /\ Len(output) = 1
    /\ Len(output[1].rows) = 2

\* The value a cell of column c holds, whatever its representation.
CellValue(c, cell) == IF c = DATE_COLUMN THEN cell.v ELSE cell

SameValues(f, g) ==
    /\ f.columns = g.columns
    /\ Len(f.rows) = Len(g.rows)
    /\ \A i \in Idx(f) : \A c \in f.columns :
           CellValue(c, f.rows[i][c]) = CellValue(c, g.rows[i][c])

\* C9: once the three checks have run, the batch holds the rows and the column
\* values that were fetched.
C9_ChecksObservational == xpc = "save" => SameValues(df, response)

\* C10: the checks never raise: an iteration that fetched a batch comes back to the
\* head of the loop only by appending that batch to the combined data.
C10_FetchedBatchIsCombined ==
    [][(xpc # "fetch" /\ xpc' = "fetch") => Len(combined_data') = Len(combined_data) + 1]_vars

====
